---- MODULE Spec2Model ----
(***************************************************************************)
(* Model of rgb_controller.py: main parses two interval arguments and      *)
(* enters loop, which every cycle reads the CPU temperature, maps it to a  *)
(* colour, scales colours by a time-of-day brightness and sends them to    *)
(* the ring and logo zones of the cooler and, every mod_aura cycles, to    *)
(* the motherboard (aura).                                                 *)
(*                                                                         *)
(* Python floats are modelled as exact rationals <<n, d>> (d > 0, lowest   *)
(* terms); round() is Python's round-half-to-even.  A float product that   *)
(* is an exact tie k + 1/2 as a rational may round to either neighbour in  *)
(* Python; on the loop's inputs as bounded below (ClockStep = 90) and on   *)
(* the harness's get_color and validate_color inputs the two agree.        *)
(* The wall clock and the sensor are the environment: every read of        *)
(* datetime.now() and every sensor enumeration yields any value of the     *)
(* sampled input sets.                                                     *)
(***************************************************************************)
EXTENDS Integers, Sequences, FiniteSets

VARIABLES
    pc,               \* position of the process
    argv,             \* sys.argv
    stdout,           \* what print() wrote
    exit_code,        \* None while running, else the process exit status
    exc,              \* uncaught exception that ended the process, or None
    initialised,      \* sensors.init() / OpenRGBClient() have run (loop 176-184)
    interval,         \* loop parameter
    mod_aura,         \* loop parameter
    count,            \* loop local: kraken cycles since the last aura update
    chips,            \* what sensors.iter_detected_chips() yielded last
    temperature,      \* get_color local
    ring_hex_color,   \* loop local
    rgb,              \* r, g, b of the function that ran last (loop, set_aura_color)
    hours,            \* get_brightness local (last wall clock read)
    brightness,       \* brightness of the function that ran last (loop, set_aura_color)
    sent,             \* last set_color call: [zone, color]
    cycle,            \* history: index of the current cycle, from 0
    order,            \* history: zones updated in the current cycle, in order
    updates,          \* history: number of set_color calls per zone
    sleeps,           \* history: number of time.sleep calls
    probe             \* function harness: [fn, in, out, done]

vars == <<pc, argv, stdout, exit_code, exc, initialised, interval, mod_aura,
          count, chips, temperature, ring_hex_color, rgb, hours, brightness,
          sent, cycle, order, updates, sleeps, probe>>

\* Python's None, and the value of a local that is not bound yet
None == <<>>

(***************************************************************************)
(* Bounds of the model.                                                    *)
(***************************************************************************)
\* interval arguments are the integers -MaxArg..MaxArg (seconds)
MaxArg == 2
\* the loop is followed for cycles 0..MaxCycles-1
MaxCycles == 6
\* the wall clock is sampled every ClockStep minutes of the day
ClockStep == 90

(***************************************************************************)
(* Exact rational arithmetic standing for Python's float arithmetic.       *)
(***************************************************************************)
RECURSIVE GCD(_, _)
GCD(a, b) == IF b = 0 THEN a ELSE GCD(b, a % b)

Abs(x) == IF x < 0 THEN -x ELSE x

Rat(n, d) ==
    LET s == IF d < 0 THEN -1 ELSE 1
        g == GCD(Abs(n), Abs(d))
    IN  <<(s * n) \div g, (s * d) \div g>>

RInt(n) == <<n, 1>>
RAdd(x, y) == Rat(x[1] * y[2] + y[1] * x[2], x[2] * y[2])
RSub(x, y) == Rat(x[1] * y[2] - y[1] * x[2], x[2] * y[2])
RMul(x, y) == Rat(x[1] * y[1], x[2] * y[2])
RDiv(x, y) == Rat(x[1] * y[2], x[2] * y[1])
RLt(x, y) == x[1] * y[2] < y[1] * x[2]
RLe(x, y) == x[1] * y[2] <= y[1] * x[2]
RMin(x, y) == IF RLe(x, y) THEN x ELSE y
RMax(x, y) == IF RLe(x, y) THEN y ELSE x

\* Python round(): nearest integer, ties to the even one
round(x) ==
    LET f == x[1] \div x[2]
        twice == 2 * (x[1] - f * x[2])
    IN  IF twice < x[2] THEN f
        ELSE IF twice > x[2] THEN f + 1
        ELSE IF f % 2 = 0 THEN f ELSE f + 1

min(a, b) == IF a <= b THEN a ELSE b
max(a, b) == IF a >= b THEN a ELSE b

\* Python a % b for b # 0: the result has the sign of b
PyMod(a, b) == IF b > 0 THEN a % b ELSE -((-a) % (-b))

(***************************************************************************)
(* Module constants (lines 9-32).                                          *)
(***************************************************************************)
CPU_TEMP_RANGE_MAX == 53
CPU_TEMP_RANGE_MIN == 38
CPU_TEMP_COLOR_MAX == 16711680
CPU_TEMP_COLOR_MIN == 9795021
AURA_COLOR == 6627327
KRAKEN_LOGO_COLOR == CPU_TEMP_COLOR_MIN
TIME_SUNRISE == Rat(15, 2)
TIME_SUNSET == Rat(39, 2)
BRIGHTNESS_AURA_MIN == Rat(1, 10)
BRIGHTNESS_AURA_MAX == Rat(7, 10)
BRIGHTNESS_KRAKEN_MIN == Rat(4, 10)
BRIGHTNESS_KRAKEN_MAX == Rat(10, 10)
SENSOR_PREFIX == "k10temp"
SENSOR_ADDR == 195
SENSOR_FEATURE_LABEL == "Tdie"

(***************************************************************************)
(* Pure functions.                                                         *)
(***************************************************************************)
\* lines 35-44: masks and shifts of a 24-bit colour
hex_to_rgb(hex_color) ==
    <<(hex_color \div 65536) % 256, (hex_color \div 256) % 256, hex_color % 256>>

\* lines 57-64 for one channel: round, then clamp
rgb_to_hex_channel(x) == min(max(0, round(x)), 255)

\* lines 47-69; r, g, b are floats
rgb_to_hex(r, g, b) ==
    rgb_to_hex_channel(r) * 65536 + rgb_to_hex_channel(g) * 256
        + rgb_to_hex_channel(b)

\* validate_channel with the channel wrapped into a byte instead of clamped
validate_channel_wrapping(x) == round(x) % 256

\* lines 80-83 for one channel: round, then clamp
validate_channel(x) == max(0, min(255, round(x)))

\* lines 72-84; r, g, b are floats
validate_color(r, g, b) ==
    <<validate_channel(r), validate_channel(g), validate_channel(b)>>

\* the chips of lines 93-94 that match, in enumeration order
MatchingChips(detected) ==
    SelectSeq(detected,
              LAMBDA chip : chip.addr = SENSOR_ADDR /\ chip.prefix = SENSOR_PREFIX)

\* the features of line 96-97 that match, over the matching chips in order
MatchingFeatures(detected) ==
    LET m == MatchingChips(detected)
        F[i \in 0..Len(m)] ==
            IF i = 0 THEN <<>>
            ELSE F[i - 1] \o SelectSeq(m[i].features,
                     LAMBDA feature : feature.label = SENSOR_FEATURE_LABEL)
    IN  F[Len(m)]

\* lines 87-98: the first matching feature's value; falling off the end of the
\* function returns None
get_cpu_temperature(detected) ==
    LET f == MatchingFeatures(detected)
    IN  IF f = <<>> THEN None ELSE f[1].value

\* line 107: dt is the minute of the day
Hours(dt) == RAdd(RInt(dt \div 60), Rat(dt % 60, 60))

\* get_brightness with mid_day computed without the division by 2
get_brightness_midday_undivided(h) ==
    IF RLe(h, TIME_SUNRISE) \/ RLe(TIME_SUNSET, h) THEN RInt(0)
    ELSE LET mid_day == RAdd(TIME_SUNRISE, TIME_SUNSET)
         IN  IF RLt(h, mid_day)
             THEN RDiv(RSub(h, TIME_SUNRISE), RSub(mid_day, TIME_SUNRISE))
             ELSE RSub(RInt(1), RDiv(RSub(h, mid_day), RSub(TIME_SUNSET, mid_day)))

\* get_brightness with the afternoon ratio not inverted: it rises again from 0
get_brightness_ascending_afternoon(h) ==
    IF RLe(h, TIME_SUNRISE) \/ RLe(TIME_SUNSET, h) THEN RInt(0)
    ELSE LET mid_day == RDiv(RAdd(TIME_SUNRISE, TIME_SUNSET), RInt(2))
         IN  IF RLt(h, mid_day)
             THEN RDiv(RSub(h, TIME_SUNRISE), RSub(mid_day, TIME_SUNRISE))
             ELSE RDiv(RSub(h, mid_day), RSub(TIME_SUNSET, mid_day))

\* lines 109-118, given the hours of line 107
get_brightness(h) ==
    IF RLe(h, TIME_SUNRISE) \/ RLe(TIME_SUNSET, h) THEN RInt(0)
    ELSE LET mid_day == RDiv(RAdd(TIME_SUNRISE, TIME_SUNSET), RInt(2))
         IN  IF RLt(h, mid_day)
             THEN RDiv(RSub(h, TIME_SUNRISE), RSub(mid_day, TIME_SUNRISE))
             ELSE RSub(RInt(1), RDiv(RSub(h, mid_day), RSub(TIME_SUNSET, mid_day)))

\* lines 121-127
get_kraken_brightness(h) ==
    RAdd(BRIGHTNESS_KRAKEN_MIN,
         RMul(get_brightness(h), RSub(BRIGHTNESS_KRAKEN_MAX, BRIGHTNESS_KRAKEN_MIN)))

\* lines 130-136
get_aura_brightness(h) ==
    RAdd(BRIGHTNESS_AURA_MIN,
         RMul(get_brightness(h), RSub(BRIGHTNESS_AURA_MAX, BRIGHTNESS_AURA_MIN)))

\* temperature_ratio without the clip of line 154
temperature_ratio_unclipped(t) ==
    RDiv(RSub(t, RInt(CPU_TEMP_RANGE_MIN)),
         RInt(CPU_TEMP_RANGE_MAX - CPU_TEMP_RANGE_MIN))

\* lines 151-154: the clipped ratio, t a number
temperature_ratio(t) ==
    RMin(RInt(1), RMax(RInt(0),
        RDiv(RSub(t, RInt(CPU_TEMP_RANGE_MIN)),
             RInt(CPU_TEMP_RANGE_MAX - CPU_TEMP_RANGE_MIN))))

\* interpolate with the two end colours swapped in the difference
interpolate_reversed(ratio, c_min, c_max) ==
    RAdd(RMul(ratio, RInt(c_min - c_max)), RInt(c_min))

\* lines 161-163 for one channel
interpolate(ratio, c_min, c_max) ==
    RAdd(RMul(ratio, RInt(c_max - c_min)), RInt(c_min))

\* lines 150-165, given the temperature of line 148 (a number)
get_color(t) ==
    LET ratio == temperature_ratio(t)
        lo == hex_to_rgb(CPU_TEMP_COLOR_MIN)
        hi == hex_to_rgb(CPU_TEMP_COLOR_MAX)
    IN  rgb_to_hex(interpolate(ratio, lo[1], hi[1]),
                   interpolate(ratio, lo[2], hi[2]),
                   interpolate(ratio, lo[3], hi[3]))

\* lines 198-203, 216-221, 251-256: scale a colour by a brightness and validate
apply_brightness(color, b) ==
    validate_color(RMul(RInt(color[1]), b), RMul(RInt(color[2]), b),
                   RMul(RInt(color[3]), b))

(***************************************************************************)
(* Inputs.                                                                 *)
(***************************************************************************)
\* a command line argument: float() accepts it (numeric) or raises ValueError
Arguments ==
    {[numeric |-> TRUE, value |-> n] : n \in -MaxArg..MaxArg}
        \cup {[numeric |-> FALSE, value |-> 0]}

CommandLines ==
    LET script == [numeric |-> FALSE, value |-> 0]
    IN  {<<script>>} \cup {<<script, a>> : a \in Arguments}
            \cup {<<script, a, b>> : a, b \in Arguments}

\* temperatures the sensor reports, in degrees Celsius: the two ends of the
\* range and its middle
Temperatures == {Rat(t, 10) : t \in {380, 455, 530}}

\* a chip with the configured address and prefix, and one that is another chip
Chip(features) == [addr |-> SENSOR_ADDR, prefix |-> SENSOR_PREFIX, features |-> features]
OtherChip(features) == [addr |-> 0, prefix |-> "nct6775", features |-> features]
Feature(label, value) == [label |-> label, value |-> value]

\* what the sensors library may enumerate
SensorReadings ==
    {<<>>,
     <<OtherChip(<<Feature(SENSOR_FEATURE_LABEL, RInt(30))>>)>>,
     <<Chip(<<Feature("Tctl", RInt(50))>>)>>}
        \cup {<<OtherChip(<<Feature(SENSOR_FEATURE_LABEL, RInt(30))>>),
                Chip(<<Feature("Tctl", RInt(50)), Feature(SENSOR_FEATURE_LABEL, t)>>)>>
              : t \in Temperatures}

\* the minutes of the day datetime.now() may fall in
Clock == {m \in 0..1439 : m % ClockStep = 0}

Usage == "Invalid arguments, read the documentation first."

NoProbe == [fn |-> "none", in |-> <<>>, out |-> <<>>, done |-> FALSE]

(***************************************************************************)
(* The process: main, then loop.                                           *)
(***************************************************************************)
InitProcess ==
    /\ pc = "main"
    /\ argv \in CommandLines
    /\ stdout = <<>>
    /\ exit_code = None
    /\ exc = ""
    /\ initialised = FALSE
    /\ interval = None
    /\ mod_aura = None
    /\ count = None
    /\ chips = <<>>
    /\ temperature = None
    /\ ring_hex_color = None
    /\ rgb = None
    /\ hours = None
    /\ brightness = None
    /\ sent = None
    /\ cycle = 0
    /\ order = <<>>
    /\ updates = [ring |-> 0, logo |-> 0, aura |-> 0]
    /\ sleeps = 0

Init == InitProcess /\ probe = NoProbe

loop_locals == <<count, chips, temperature, ring_hex_color, rgb, hours, brightness>>
history == <<cycle, order, updates, sleeps>>

\* an uncaught exception: the interpreter prints a traceback and exits with status 1
Raise(e) ==
    /\ pc' = "raised"
    /\ exc' = e
    /\ exit_code' = 1

\* lines 262-264
MainUsage ==
    /\ pc = "main"
    /\ Len(argv) < 3
    /\ stdout' = Append(stdout, Usage)
    /\ exit_code' = 1
    /\ pc' = "exited"
    /\ UNCHANGED <<argv, exc, initialised, interval, mod_aura, sent, probe>>
    /\ UNCHANGED loop_locals
    /\ UNCHANGED history

\* lines 266-268, up to the call of loop
MainParse ==
    /\ pc = "main"
    /\ Len(argv) >= 3
    /\ IF ~argv[2].numeric \/ ~argv[3].numeric
       THEN Raise("ValueError") /\ UNCHANGED <<interval, mod_aura>>
       ELSE IF argv[2].value = 0
       THEN Raise("ZeroDivisionError") /\ UNCHANGED <<interval, mod_aura>>
       ELSE /\ interval' = argv[2].value
            /\ mod_aura' = round(Rat(argv[3].value, argv[2].value))
            /\ pc' = "loop"
            /\ UNCHANGED <<exc, exit_code>>
    /\ UNCHANGED <<argv, stdout, initialised, sent, probe>>
    /\ UNCHANGED loop_locals
    /\ UNCHANGED history

\* lines 175-187
LoopInit ==
    /\ pc = "loop"
    /\ initialised' = TRUE
    /\ count' = 0
    /\ pc' = "get_color"
    /\ UNCHANGED <<argv, stdout, exit_code, exc, interval, mod_aura, chips,
                   temperature, ring_hex_color, rgb, hours, brightness, sent, probe>>
    /\ UNCHANGED history

\* lines 191-192: get_color() and hex_to_rgb; None - 38 raises TypeError (line 151)
GetColor ==
    /\ pc = "get_color"
    /\ \E detected \in SensorReadings :
        LET t == get_cpu_temperature(detected)
        IN  /\ chips' = detected
            /\ temperature' = t
            /\ IF t = None
               THEN Raise("TypeError") /\ UNCHANGED <<ring_hex_color, rgb>>
               ELSE /\ ring_hex_color' = get_color(t)
                    /\ rgb' = hex_to_rgb(get_color(t))
                    /\ pc' = "ring"
                    /\ UNCHANGED <<exc, exit_code>>
    /\ UNCHANGED <<argv, stdout, initialised, interval, mod_aura, count, hours,
                   brightness, sent, probe>>
    /\ UNCHANGED history

\* lines 195-206
SetRing ==
    /\ pc = "ring"
    /\ \E dt \in Clock :
        LET b == get_kraken_brightness(Hours(dt))
            c == apply_brightness(rgb, b)
        IN  /\ hours' = Hours(dt)
            /\ brightness' = b
            /\ rgb' = c
            /\ sent' = [zone |-> "ring", color |-> c]
    /\ order' = Append(order, "ring")
    /\ updates' = [updates EXCEPT !.ring = @ + 1]
    /\ pc' = "logo"
    /\ UNCHANGED <<argv, stdout, exit_code, exc, initialised, interval, mod_aura,
                   count, chips, temperature, ring_hex_color, cycle, sleeps, probe>>

\* SetLogo without lines 209-210: r, g, b still hold the ring's colour
SetLogoRingColor ==
    /\ pc = "logo"
    /\ \E dt \in Clock :
        LET b == get_kraken_brightness(Hours(dt))
            c == apply_brightness(rgb, b)
        IN  /\ hours' = Hours(dt)
            /\ brightness' = b
            /\ rgb' = c
            /\ sent' = [zone |-> "logo", color |-> c]
    /\ order' = Append(order, "logo")
    /\ updates' = [updates EXCEPT !.logo = @ + 1]
    /\ pc' = "aura"
    /\ UNCHANGED <<argv, stdout, exit_code, exc, initialised, interval, mod_aura,
                   count, chips, temperature, ring_hex_color, cycle, sleeps, probe>>

\* lines 209-224
SetLogo ==
    /\ pc = "logo"
    /\ \E dt \in Clock :
        LET b == get_kraken_brightness(Hours(dt))
            c == apply_brightness(hex_to_rgb(KRAKEN_LOGO_COLOR), b)
        IN  /\ hours' = Hours(dt)
            /\ brightness' = b
            /\ rgb' = c
            /\ sent' = [zone |-> "logo", color |-> c]
    /\ order' = Append(order, "logo")
    /\ updates' = [updates EXCEPT !.logo = @ + 1]
    /\ pc' = "aura"
    /\ UNCHANGED <<argv, stdout, exit_code, exc, initialised, interval, mod_aura,
                   count, chips, temperature, ring_hex_color, cycle, sleeps, probe>>

\* line 227 with mod_aura = 0: count % 0 raises ZeroDivisionError
AuraZeroDivision ==
    /\ pc = "aura"
    /\ mod_aura = 0
    /\ Raise("ZeroDivisionError")
    /\ UNCHANGED <<argv, stdout, initialised, interval, mod_aura, sent, probe>>
    /\ UNCHANGED loop_locals
    /\ UNCHANGED history

\* lines 227-229 with the condition true, and set_aura_color (lines 238-258)
SetAura ==
    /\ pc = "aura"
    /\ mod_aura # 0
    /\ PyMod(count, mod_aura) = 0
    /\ \E dt \in Clock :
        LET b == get_aura_brightness(Hours(dt))
            c == apply_brightness(hex_to_rgb(AURA_COLOR), b)
        IN  /\ hours' = Hours(dt)
            /\ brightness' = b
            /\ rgb' = c
            /\ sent' = [zone |-> "aura", color |-> c]
    /\ count' = 0
    /\ order' = Append(order, "aura")
    /\ updates' = [updates EXCEPT !.aura = @ + 1]
    /\ pc' = "sleep"
    /\ UNCHANGED <<argv, stdout, exit_code, exc, initialised, interval, mod_aura,
                   chips, temperature, ring_hex_color, cycle, sleeps, probe>>

\* line 227 with the condition false
SkipAura ==
    /\ pc = "aura"
    /\ mod_aura # 0
    /\ PyMod(count, mod_aura) # 0
    /\ pc' = "sleep"
    /\ UNCHANGED <<argv, stdout, exit_code, exc, initialised, interval, mod_aura,
                   sent, probe>>
    /\ UNCHANGED loop_locals
    /\ UNCHANGED history

\* lines 232-233, and main returning after loop does: exit status 0
Return ==
    /\ pc = "sleep"
    /\ interval < 0
    /\ pc' = "returned"
    /\ exit_code' = 0
    /\ UNCHANGED <<argv, stdout, exc, initialised, interval, mod_aura, sent, probe>>
    /\ UNCHANGED loop_locals
    /\ UNCHANGED history

\* lines 232-235 with interval >= 0, back to line 189
Sleep ==
    /\ pc = "sleep"
    /\ interval >= 0
    /\ cycle + 1 < MaxCycles
    /\ sleeps' = sleeps + 1
    /\ count' = count + 1
    /\ cycle' = cycle + 1
    /\ order' = <<>>
    /\ pc' = "get_color"
    /\ UNCHANGED <<argv, stdout, exit_code, exc, initialised, interval, mod_aura,
                   chips, temperature, ring_hex_color, rgb, hours, brightness,
                   sent, updates, probe>>

Next ==
    \/ MainUsage
    \/ MainParse
    \/ LoopInit
    \/ GetColor
    \/ SetRing
    \/ SetLogo
    \/ AuraZeroDivision
    \/ SetAura
    \/ SkipAura
    \/ Return
    \/ Sleep

Spec == Init /\ [][Next]_vars

(***************************************************************************)
(* Function harness: the pure functions applied to inputs drawn from       *)
(* bounded sets, two inputs at a time where a claim compares two results.  *)
(***************************************************************************)
\* temperatures from 35.0 to 56.0 degrees in steps of half a degree
ProbeTemperatures == {Rat(t, 10) : t \in {x \in 350..560 : x % 5 = 0}}

\* minutes of the day, three times as dense as the loop's clock
ProbeClock == {m \in 0..1439 : (3 * m) % ClockStep = 0}

\* channel values handed to validate_color and rgb_to_hex: below, in and above 0..255
ProbeChannels ==
    {Rat(-5, 1), Rat(-1, 2), Rat(0, 1), Rat(255, 2), Rat(255, 1), Rat(511, 2),
     Rat(256, 1), Rat(300, 1)}

ProbeInputs ==
    [fn : {"get_color"}, in : ProbeTemperatures \X ProbeTemperatures,
     out : {<<>>}, done : {FALSE}]
    \cup [fn : {"get_kraken_brightness", "get_aura_brightness"},
          in : ProbeClock \X ProbeClock, out : {<<>>}, done : {FALSE}]
    \cup [fn : {"validate_color", "rgb_to_hex"},
          in : ProbeChannels \X ProbeChannels \X ProbeChannels,
          out : {<<>>}, done : {FALSE}]

\* the process is not started; one function call is pending
InitHarness ==
    /\ pc = "harness"
    /\ argv = <<>>
    /\ stdout = <<>>
    /\ exit_code = None
    /\ exc = ""
    /\ initialised = FALSE
    /\ interval = None
    /\ mod_aura = None
    /\ count = None
    /\ chips = <<>>
    /\ temperature = None
    /\ ring_hex_color = None
    /\ rgb = None
    /\ hours = None
    /\ brightness = None
    /\ sent = None
    /\ cycle = 0
    /\ order = <<>>
    /\ updates = [ring |-> 0, logo |-> 0, aura |-> 0]
    /\ sleeps = 0
    /\ probe \in ProbeInputs

process == <<pc, argv, stdout, exit_code, exc, initialised, interval, mod_aura,
             sent>>

Pending(fn) == pc = "harness" /\ probe.fn = fn /\ ~probe.done

Answer(out) ==
    /\ probe' = [probe EXCEPT !.out = out, !.done = TRUE]
    /\ UNCHANGED process
    /\ UNCHANGED loop_locals
    /\ UNCHANGED history

CallGetColor ==
    /\ Pending("get_color")
    /\ Answer(<<get_color(probe.in[1]), get_color(probe.in[2])>>)

CallGetKrakenBrightness ==
    /\ Pending("get_kraken_brightness")
    /\ Answer(<<get_kraken_brightness(Hours(probe.in[1])),
                get_kraken_brightness(Hours(probe.in[2]))>>)

CallGetAuraBrightness ==
    /\ Pending("get_aura_brightness")
    /\ Answer(<<get_aura_brightness(Hours(probe.in[1])),
                get_aura_brightness(Hours(probe.in[2]))>>)

CallValidateColor ==
    /\ Pending("validate_color")
    /\ Answer(validate_color(probe.in[1], probe.in[2], probe.in[3]))

CallRgbToHex ==
    /\ Pending("rgb_to_hex")
    /\ Answer(hex_to_rgb(rgb_to_hex(probe.in[1], probe.in[2], probe.in[3])))

NextHarness ==
    \/ CallGetColor
    \/ CallGetKrakenBrightness
    \/ CallGetAuraBrightness
    \/ CallValidateColor
    \/ CallRgbToHex

\* the process, and beside it the harness
SpecAll == (Init \/ InitHarness) /\ [][Next \/ NextHarness]_vars

(***************************************************************************)
(* Claims.                                                                 *)
(***************************************************************************)
Terminated == pc \in {"exited", "raised", "returned"}
Zones(seq) == {seq[i] : i \in 1..Len(seq)}
\* k is a multiple of n (k mod n = 0)
IsMultiple(k, n) == \E q \in -k..k : k = q * n
\* x lies between a and b, whichever of the two is the larger
Between(a, x, b) == (a <= x /\ x <= b) \/ (b <= x /\ x <= a)
mid_day == RDiv(RAdd(TIME_SUNRISE, TIME_SUNSET), RInt(2))
Night(h) == RLe(h, TIME_SUNRISE) \/ RLe(TIME_SUNSET, h)
Morning(h) == RLe(TIME_SUNRISE, h) /\ RLe(h, mid_day)
Afternoon(h) == RLe(mid_day, h) /\ RLe(h, TIME_SUNSET)
BrightnessMin(zone) ==
    IF zone = "aura" THEN BRIGHTNESS_AURA_MIN ELSE BRIGHTNESS_KRAKEN_MIN
BrightnessMax(zone) ==
    IF zone = "aura" THEN BRIGHTNESS_AURA_MAX ELSE BRIGHTNESS_KRAKEN_MAX
\* a colour has been sent in the loop
Dispatched == updates.ring > 0
\* c is an integer nearest to x
Nearest(c, x) == 2 * Abs(c * x[2] - x[1]) <= x[2]

\* C1 (as claimed): a loop with a negative interval ends by returning after
\* exactly one ring and one logo update and no sleep; a loop with a
\* non-negative interval never returns.
C1_OneShot ==
    /\ (initialised /\ interval < 0 /\ Terminated) =>
           (pc = "returned" /\ updates.ring = 1 /\ updates.logo = 1 /\ sleeps = 0)
    /\ (initialised /\ interval < 0) => sleeps = 0
    /\ (initialised /\ interval >= 0) => pc # "returned"

\* C2 (as claimed): with a non-negative interval, a cycle k that got past the
\* logo update refreshes the aura device if and only if k is a multiple of
\* mod_aura; in particular cycle 0 does, whatever mod_aura main computed.
C2_AuraEveryNth ==
    (initialised /\ interval >= 0
        /\ (pc = "sleep" \/ (pc = "raised" /\ order = <<"ring", "logo">>))) =>
        (("aura" \in Zones(order)) <=> IsMultiple(cycle, mod_aura))

ColorAtEnds(t, color) ==
    /\ RLe(t, RInt(CPU_TEMP_RANGE_MIN)) => color = CPU_TEMP_COLOR_MIN
    /\ RLe(RInt(CPU_TEMP_RANGE_MAX), t) => color = CPU_TEMP_COLOR_MAX

\* C3: get_color returns CPU_TEMP_COLOR_MIN for every temperature at or below
\* CPU_TEMP_RANGE_MIN and CPU_TEMP_COLOR_MAX for every temperature at or above
\* CPU_TEMP_RANGE_MAX, in the loop and in the harness.
C3_ColorAtEnds ==
    /\ pc = "ring" => ColorAtEnds(temperature, ring_hex_color)
    /\ (probe.fn = "get_color" /\ probe.done) =>
           \A i \in 1..2 : ColorAtEnds(probe.in[i], probe.out[i])

C3_Witness ==
    /\ probe.fn = "get_color" /\ probe.done
    /\ RLt(probe.in[1], RInt(CPU_TEMP_RANGE_MIN))
    /\ RLt(RInt(CPU_TEMP_RANGE_MAX), probe.in[2])
    /\ probe.out = <<CPU_TEMP_COLOR_MIN, CPU_TEMP_COLOR_MAX>>

Inside(t) == RLt(RInt(CPU_TEMP_RANGE_MIN), t) /\ RLt(t, RInt(CPU_TEMP_RANGE_MAX))

ChannelsBetween(color) ==
    \A i \in 1..3 :
        Between(hex_to_rgb(CPU_TEMP_COLOR_MIN)[i], hex_to_rgb(color)[i],
                hex_to_rgb(CPU_TEMP_COLOR_MAX)[i])

\* from the colour at the lower temperature to the colour at the higher one
ChannelsTowardsMax(lower, higher) ==
    \A i \in 1..3 :
        Between(hex_to_rgb(lower)[i], hex_to_rgb(higher)[i],
                hex_to_rgb(CPU_TEMP_COLOR_MAX)[i])

\* C4: for temperatures strictly inside the range every channel of get_color's
\* result lies between the channels of the two end colours, and between two
\* such temperatures t1 <= t2 no channel moves back towards its value in
\* CPU_TEMP_COLOR_MIN.
C4_Interpolation ==
    /\ (pc = "ring" /\ Inside(temperature)) => ChannelsBetween(ring_hex_color)
    /\ (probe.fn = "get_color" /\ probe.done) =>
        /\ \A i \in 1..2 : Inside(probe.in[i]) => ChannelsBetween(probe.out[i])
        /\ (Inside(probe.in[1]) /\ Inside(probe.in[2])
                /\ RLe(probe.in[1], probe.in[2])) =>
               ChannelsTowardsMax(probe.out[1], probe.out[2])

C4_Witness ==
    /\ probe.fn = "get_color" /\ probe.done
    /\ Inside(probe.in[1]) /\ Inside(probe.in[2])
    /\ RLt(probe.in[1], probe.in[2])
    /\ \A i \in 1..3 : hex_to_rgb(probe.out[1])[i] # hex_to_rgb(probe.out[2])[i]

Clamped(x, c) ==
    /\ c \in 0..255
    /\ RLt(RInt(255), x) => c = 255
    /\ RLt(x, RInt(0)) => c = 0

\* C5: every colour sent to a zone is a triple of integers in 0..255, and
\* validate_color and rgb_to_hex turn a channel above 255 into 255 and a channel
\* below 0 into 0.
C5_Clamped ==
    /\ Dispatched => (Len(sent.color) = 3 /\ \A i \in 1..3 : sent.color[i] \in 0..255)
    /\ (probe.fn \in {"validate_color", "rgb_to_hex"} /\ probe.done) =>
           (Len(probe.out) = 3 /\ \A i \in 1..3 : Clamped(probe.in[i], probe.out[i]))

C5_Witness ==
    /\ probe.fn = "validate_color" /\ probe.done
    /\ probe.in = <<Rat(300, 1), Rat(-5, 1), Rat(255, 2)>>
    /\ probe.out = <<255, 0, 128>>

\* C6: the brightness a device gets is its configured minimum at every hour at
\* or before sunrise and at or after sunset, and its configured maximum at
\* mid_day.
C6_BrightnessAnchors ==
    Dispatched =>
        /\ Night(hours) => brightness = BrightnessMin(sent.zone)
        /\ hours = mid_day => brightness = BrightnessMax(sent.zone)

C6_Witness ==
    /\ Dispatched
    /\ sent.zone = "aura"
    /\ hours = mid_day
    /\ brightness = BRIGHTNESS_AURA_MAX

InRange(b, zone) == RLe(BrightnessMin(zone), b) /\ RLe(b, BrightnessMax(zone))

Tent(zone) ==
    LET h1 == Hours(probe.in[1])
        h2 == Hours(probe.in[2])
    IN  /\ \A i \in 1..2 : InRange(probe.out[i], zone)
        /\ (Morning(h1) /\ Morning(h2) /\ RLe(h1, h2)) =>
               RLe(probe.out[1], probe.out[2])
        /\ (Afternoon(h1) /\ Afternoon(h2) /\ RLe(h1, h2)) =>
               RLe(probe.out[2], probe.out[1])

\* C7: between sunrise and mid_day brightness does not fall as the hour grows,
\* between mid_day and sunset it does not rise, and at every hour it lies
\* between the device's minimum and maximum.
C7_Tent ==
    /\ Dispatched => InRange(brightness, sent.zone)
    /\ (probe.fn = "get_kraken_brightness" /\ probe.done) => Tent("ring")
    /\ (probe.fn = "get_aura_brightness" /\ probe.done) => Tent("aura")

C7_Witness ==
    /\ probe.fn = "get_aura_brightness" /\ probe.done
    /\ Afternoon(Hours(probe.in[1])) /\ Afternoon(Hours(probe.in[2]))
    /\ RLt(Hours(probe.in[1]), Hours(probe.in[2]))
    /\ RLt(probe.out[2], probe.out[1])

SensorAbsent == initialised /\ pc # "get_color" /\ temperature = None

\* C8 (as claimed): when the sensor read yields None the cycle ends in an
\* explicit sensor-unavailable error, before any colour is sent in that cycle.
C8_SensorUnavailable ==
    SensorAbsent => (pc = "raised" /\ exc = "SensorUnavailable" /\ order = <<>>)

InvalidArguments ==
    \/ Len(argv) < 3
    \/ ~argv[2].numeric
    \/ ~argv[3].numeric

\* C9 (as claimed): with fewer than two interval arguments, or an interval
\* argument that is not a number, main prints the usage message and exits with
\* a non-zero status, without initialising the devices or sending a colour.
C9_UsageOnInvalidArguments ==
    (pc \notin {"main", "harness"} /\ InvalidArguments) =>
        /\ stdout = <<Usage>>
        /\ exit_code # 0
        /\ ~initialised
        /\ ~Dispatched

\* C10 (as claimed): the logo update follows the ring update of its cycle and
\* sends KRAKEN_LOGO_COLOR scaled by the brightness that was applied to the
\* ring, however the clock moved in between.
C10_SameBrightness ==
    [][SetLogo =>
        /\ order = <<"ring">>
        /\ sent.zone = "ring"
        /\ sent'.color = apply_brightness(hex_to_rgb(KRAKEN_LOGO_COLOR), brightness)
      ]_vars

\* C10 (amended): the logo update follows the ring update of its cycle and sends
\* KRAKEN_LOGO_COLOR, whatever the temperature, scaled by the kraken brightness
\* of the hour read for the logo update itself; that is the brightness applied
\* to the ring whenever both updates read the same hour.
C10_LogoBrightness ==
    [][SetLogo =>
        /\ order = <<"ring">>
        /\ sent.zone = "ring"
        /\ sent'.zone = "logo"
        /\ InRange(brightness', "logo")
        /\ Night(hours') => brightness' = BRIGHTNESS_KRAKEN_MIN
        /\ \A i \in 1..3 :
               Nearest(sent'.color[i],
                       RMul(RInt(hex_to_rgb(KRAKEN_LOGO_COLOR)[i]), brightness'))
        /\ hours' = hours => brightness' = brightness
      ]_vars

C10_Witness ==
    /\ pc = "aura"
    /\ order = <<"ring", "logo">>
    /\ sent.zone = "logo"
    /\ ring_hex_color # KRAKEN_LOGO_COLOR
    /\ hours = mid_day
    /\ sent.color = hex_to_rgb(KRAKEN_LOGO_COLOR)

====
